---- MODULE Spec2Model ----
(***************************************************************************)
(* State-machine model of dsb3/pipeline.py: the run registry (_init_run),  *)
(* the path functions (get_write_dir, get_step_dir), lineage resolution    *)
(* (_get_step_dir_for_load), the stores (save_json, load_json, save_array, *)
(* load_array), and the step executor (_init_step, _run_step,              *)
(* _visualize_step, _init_log_pipe, _init_log_step, _init_patients).       *)
(*                                                                         *)
(* Python strings are TLA+ strings and '+' on strings is \o.  A Python     *)
(* (ordered) dict is a sequence of <<key, value>> pairs with distinct      *)
(* keys, in insertion order.  None is the string NoneVal.                  *)
(***************************************************************************)
EXTENDS Integers, Sequences, FiniteSets, TLC

\* ---------------------------------------------------------------- bounds
\* Number of calls of _init_run, _init_log_pipe, _init_patients and _run_step
\* a behaviour makes.
MaxCalls == 4
\* Largest integer int() is asked to read back from a registry key.
MaxParse == 20

\* ------------------------------------------------------- values and inputs
NoneVal == "<None>"

\* Configuration set by dsb3.init_pipeline: the base directory is some fixed
\* directory path ending in '/'.
write_basedir == "/w/"

avail_dataset_names == {"LUNA16", "dsb3"}

\* avail_steps, an OrderedDict of (key, step name).
avail_steps ==
    << <<"0", "resample_lungs">>,
       <<"1", "gen_prob_maps">>,
       <<"2", "gen_nodule_masks">>,
       <<"3", "gen_candidates">>,
       <<"3eval", "gen_candidates_eval">>,
       <<"3vis", "gen_candidates_vis">>,
       <<"4", "interpolate_candidates">>,
       <<"5", "filter_candidates">>,
       <<"6", "gen_nodule_seg_data">>,
       <<"7", "gen_submission">>,
       <<"8", "include_nodule_distr">>,
       <<"9", "pred_cancer_per_candidate">> >>

\* Step names the callers pass to _run_step / load_json: two catalog names,
\* one of them a prefix of the other, and one name outside the catalog.
StepInputs == {"gen_candidates", "gen_candidates_eval", "no_such_step"}
\* Suffixes the callers pass to _run_step.
SuffixInputs == {"", "_eval"}
\* Descriptions the callers pass to _init_run.
DescrInputs == {"", "a"}
\* run arguments the callers pass to _init_run (-1: resume).
RunInputs == {-1, 0, 1, 2}
\* Readings of the wall clock (time.localtime at minute resolution).
ClockInputs == {0, 1}
\* init_run arguments the callers pass to _init_run.
InitRunInputs == {-1, 0}
\* Parameter dicts the callers pass to _run_step.
ParamInputs == { << >>, << <<"n", "1">> >> }
\* (_n_patients, single_patient_id, fromto_patients) the callers pass to
\* _init_patients; fromto_patients = None is the empty list.
PatientArgs ==
    { [n |-> 0, single |-> NoneVal, fromto |-> << >>],
      [n |-> 2, single |-> NoneVal, fromto |-> << >>],
      [n |-> 0, single |-> "p2", fromto |-> << >>],
      [n |-> 0, single |-> NoneVal, fromto |-> <<0, 2>>] }
\* The patient ids the raw data directory yields (glob, natsorted).
RawPatients == <<"p1", "p2", "p3">>
\* Step names the callers pass to _visualize_step.
VisualizeInputs == {"gen_candidates"}
\* Record names the callers pass to load_json / array names to load_array.
BasenameInputs == {"params.json"}

\* ------------------------------------------------------------ str and int
Digit(d) ==
    CASE d = 0 -> "0" [] d = 1 -> "1" [] d = 2 -> "2" [] d = 3 -> "3"
      [] d = 4 -> "4" [] d = 5 -> "5" [] d = 6 -> "6" [] d = 7 -> "7"
      [] d = 8 -> "8" [] d = 9 -> "9"

RECURSIVE NatStr(_)
NatStr(n) == IF n < 10 THEN Digit(n) ELSE NatStr(n \div 10) \o Digit(n % 10)

\* str(n) for an int n.
str(n) == IF n < 0 THEN "-" \o NatStr(0 - n) ELSE NatStr(n)

\* int(s) for the decimal strings the registry holds as keys.
int(s) == CHOOSE n \in 0..MaxParse : str(n) = s

RECURSIVE JoinInts(_)
JoinInts(l) ==
    IF Len(l) = 0 THEN ""
    ELSE IF Len(l) = 1 THEN str(l[1])
    ELSE str(l[1]) \o ", " \o JoinInts(Tail(l))

\* str(l) for a list of ints l, e.g. "[3, 1, 0]".
list_str(l) == "[" \o JoinInts(l) \o "]"

\* range(start, stop, -1) as a list.
RECURSIVE range_down(_, _)
range_down(start, stop) ==
    IF start <= stop THEN << >> ELSE <<start>> \o range_down(start - 1, stop)

\* ------------------------------------------------------------------ dicts
Keys(d) == {d[i][1] : i \in 1..Len(d)}
HasKey(d, k) == k \in Keys(d)
\* The value of the key inserted last, whatever key is asked for.
Get_last(d, k) == d[Len(d)][2]
Get(d, k) == d[CHOOSE i \in 1..Len(d) : d[i][1] = k][2]
\* d[k] = v: an existing key keeps its position, a new key goes last.
Put(d, k, v) ==
    IF HasKey(d, k)
    THEN [i \in 1..Len(d) |-> IF d[i][1] = k THEN <<k, v>> ELSE d[i]]
    ELSE Append(d, <<k, v>>)
\* next(reversed(d)): the key inserted last.
LastKey(d) == d[Len(d)][1]

\* ------------------------------------------------------------------ state
VARIABLES
    dataset_name,       \* 'LUNA16' or 'dsb3'
    avail_runs,         \* the registry in memory (an ordered dict)
    runs_files,         \* the registry files on disk: path -> registry
    dirs,               \* the directories that exist
    params_files,       \* the params.json files on disk: path -> params
    log_files,          \* the log files on disk: path -> list of messages
    figs,               \* the figs/ directories that hold a figure
    html_files,         \* the overview documents written by the aggregator
    patients_files,     \* patients_raw_data_paths.json files: path -> ids
    json_files,         \* the records save_json wrote: path -> dict
    array_files,        \* the arrays np.save wrote: path -> array
    patients,           \* list of patients (None, never read, is the empty list)
    log_pipe,           \* file of the pipeline-wide logger, or None
    log_step,           \* file of the step logger, or None
    __step_name,        \* name of the current step, or None
    __step,             \* key of the current step, or None
    __step_dir_suffix,  \* suffix appended to the step directory
    __run,              \* the active run
    __init_run,         \* the run the lineage starts at
    clock,              \* last reading of the wall clock
    pc,                 \* "idle", or "running": inside step.run(**params)
    frame,              \* the arguments of the _run_step call that is running
    calls,              \* number of calls made so far
    ret,                \* the last call: its arguments and how it ended
    probe               \* two applications of get_step_dir (SpecPath only)

vars == <<dataset_name, avail_runs, runs_files, dirs, params_files, log_files,
          figs, html_files, patients_files, json_files, array_files,
          patients, log_pipe, log_step,
          __step_name, __step, __step_dir_suffix, __run, __init_run, clock,
          pc, frame, calls, ret, probe>>

\* What ret holds when a field does not apply to the call.  exc is the class
\* of the exception the call raised ("" when it returned), where the function
\* that raised it, value the exception's message (or the path save_array
\* returned), step_dir the directory _get_step_dir_for_load returned.
NoRet ==
    [op |-> "", exc |-> "", run |-> -1, run_descr |-> "", init_run |-> -1,
     step_name |-> "", suffix |-> "", params |-> << >>, basename |-> "",
     where |-> "", step_dir |-> "", value |-> "", trial_runs |-> << >>,
     dictionary |-> << >>, mode |-> "", array |-> ""]

\* frame when no _run_step call is running.
NoFrame == [step_name |-> "", params |-> << >>, suffix |-> ""]

\* probe before get_step_dir is applied: a and b are (run, step name, suffix).
NoProbe == [a |-> <<0, "", "">>, b |-> <<0, "", "">>, pa |-> "", pb |-> ""]

\* The module's globals as the file sets them (lines 35-110), before any call.
Globals ==
    /\ dataset_name \in avail_dataset_names
    /\ avail_runs = << >>
    /\ runs_files = << >>
    /\ dirs = {}
    /\ params_files = << >>
    /\ log_files = << >>
    /\ figs = {}
    /\ html_files = {}
    /\ patients_files = << >>
    /\ json_files = << >>
    /\ array_files = << >>
    /\ patients = << >>
    /\ log_pipe = NoneVal
    /\ log_step = NoneVal
    /\ __step_name = NoneVal
    /\ __step = NoneVal
    /\ __step_dir_suffix = ""
    /\ __run = 0
    /\ __init_run = -1
    /\ clock = 0
    /\ pc = "idle"
    /\ frame = NoFrame
    /\ calls = 0
    /\ ret = NoRet

Init == Globals /\ probe = NoProbe

\* ------------------------------------------------------------- file system
\* utils.ensure_dir(path): makes the directory of `path`; os.makedirs makes
\* the missing parents too, which the callers here name in `parents`.
ensure_dir(ds, path, parents) == ds \cup {path} \cup parents

\* ------------------------------------------------------------------ paths
\* get_write_dir(run); a call get_write_dir() is get_write_dir(__run).
get_write_dir(run) == write_basedir \o dataset_name \o "_" \o str(run) \o "/"

\* get_step_dir(step_name, run); step_name may be None, and a call that
\* leaves run out passes __run.
get_step_dir(step_name, run) ==
    get_write_dir(run)
        \o (IF step_name = NoneVal THEN __step_name ELSE step_name)
        \o __step_dir_suffix \o "/"

runs_filename == write_basedir \o dataset_name \o "_runs.json"

\* ------------------------------------------------------------ run registry
\* A first run numbered 1 instead of 0.
settled_run_from_one(run, run_descr, loaded) ==
    IF run = -1
    THEN IF runs_filename \in DOMAIN runs_files
         THEN int(LastKey(loaded)) + (IF run_descr # "" THEN 1 ELSE 0)
         ELSE 1
    ELSE run

\* The run _init_run settles on (lines 176-189), given the registry it loaded.
settled_run(run, run_descr, loaded) ==
    IF run = -1
    THEN IF runs_filename \in DOMAIN runs_files
         THEN int(LastKey(loaded)) + (IF run_descr # "" THEN 1 ELSE 0)
         ELSE 0
    ELSE run

\* __init_run as lines 197-200 set it.
settled_init_run(run, init_run) == IF init_run > -1 THEN init_run ELSE run - 1

\* json.dump of the registry that is not yet updated.
dump_runs_stale(rf, reg) == (runs_filename :> avail_runs) @@ rf

\* json.dump(avail_runs, open(runs_filename, 'w')) (line 193).
dump_runs(rf, reg) == (runs_filename :> reg) @@ rf

\* _init_run(run, run_descr, init_run), with `now` the wall clock it reads.
_init_run(run, run_descr, init_run, now) ==
    LET exists == runs_filename \in DOMAIN runs_files
        loaded == IF exists THEN runs_files[runs_filename] ELSE avail_runs
        r      == settled_run(run, run_descr, loaded)
        d1     == IF run = -1 /\ ~exists /\ run_descr = ""
                  THEN "run zero" ELSE run_descr
        call   == [NoRet EXCEPT !.op = "_init_run", !.run = run,
                                !.run_descr = run_descr, !.init_run = init_run]
    IN
    /\ pc = "idle"
    /\ calls < MaxCalls
    /\ calls' = calls + 1
    /\ IF run # -1 /\ ~exists
       THEN \* line 189: open() of a missing file
            /\ ret' = [call EXCEPT !.exc = "FileNotFoundError",
                                    !.where = "_init_run"]
            /\ UNCHANGED <<avail_runs, runs_files, dirs, __run, __init_run, clock>>
       ELSE IF loaded # << >> /\ d1 = "" /\ ~HasKey(loaded, str(r))
       THEN \* line 191: avail_runs[str(run)] of a missing key
            /\ ret' = [call EXCEPT !.exc = "KeyError", !.where = "_init_run"]
            /\ avail_runs' = loaded
            /\ UNCHANGED <<runs_files, dirs, __run, __init_run, clock>>
       ELSE LET d2  == IF loaded # << >> /\ d1 = ""
                       THEN Get(loaded, str(r))[2] ELSE d1
                new == Put(loaded, str(r), <<now, d2>>)
            IN
            /\ ret' = call
            /\ avail_runs' = new
            /\ runs_files' = dump_runs(runs_files, new)
            /\ __run' = r
            /\ __init_run' = settled_init_run(r, init_run)
            /\ clock' = now
            /\ dirs' = ensure_dir(dirs, get_write_dir(r), {})
    /\ UNCHANGED <<dataset_name, params_files, log_files, figs, html_files,
                   patients_files, patients, log_pipe, log_step, __step_name,
                   __step, __step_dir_suffix, pc, frame>>

\* ------------------------------------------------------------------- logs
\* A log file is the list of the messages written to it.  A file handler
\* opened in mode 'w' truncates the file, one opened in mode 'a' creates it
\* when it is missing.
open_log(lf, filename, mode) ==
    IF mode = "w" \/ filename \notin DOMAIN lf
    THEN (filename :> << >>) @@ lf
    ELSE lf

\* One message written through a file handler of `filename`.
emit(lf, filename, msg) == [lf EXCEPT ![filename] = Append(@, msg)]

\* The files _init_log_step(step_name, mode=mode) opens (lines 385-402): the
\* step's log.txt in `mode`, the run's log.txt in append mode for warnings
\* and above, and the step's log_tf.txt in `mode`.
init_log_step_files(lf, step_dir, write_dir, mode) ==
    open_log(open_log(open_log(lf, step_dir \o "log.txt", mode),
                      write_dir \o "log.txt", "a"),
             step_dir \o "log_tf.txt", mode)

\* ---------------------------------------------------------- step executor
\* A name outside the catalog taken for the first step of the catalog.
step_positions_lenient(step_name) ==
    IF \E j \in 1..Len(avail_steps) : avail_steps[j][2] = step_name
    THEN {j \in 1..Len(avail_steps) : avail_steps[j][2] = step_name}
    ELSE {1}

\* [k for k, v in avail_steps.items() if v == step_name], as the set of its
\* positions; [0] of it is the least.
step_positions(step_name) ==
    {j \in 1..Len(avail_steps) : avail_steps[j][2] = step_name}

first_step_key(step_name) ==
    avail_steps[CHOOSE j \in step_positions(step_name) :
                    \A k \in step_positions(step_name) : j <= k][1]

\* __step_dir_suffix as line 208 sets it.
next_step_dir_suffix(suffix) == suffix \o __step_dir_suffix

\* The directories _init_step makes (lines 210-213).
init_step_dirs(ds, step_dir, write_dir) ==
    ensure_dir(ensure_dir(ds, step_dir \o "arrays/", {write_dir, step_dir}),
               step_dir \o "figs/", {})

RECURSIVE params_lines(_)
params_lines(params) ==
    IF Len(params) = 0 THEN ""
    ELSE "\n    " \o params[1][1] \o " = " \o params[1][2]
             \o params_lines(Tail(params))

\* The message of lines 219-223, read after _init_step has run.
step_info(step_key, step_name, suffix, step_dir) ==
    "run " \o str(__run) \o " (" \o Get(avail_runs, str(__run))[2] \o ")"
        \o " / step " \o step_key \o " (" \o step_name \o ")"
        \o (IF __init_run > -1 THEN " with init " \o str(__init_run) ELSE "")
        \o (IF suffix # "" THEN " / writing to " \o step_dir ELSE "")

\* The message of line 230 (the conditional covers the whole expression).
start_msg ==
    IF __init_run > -1
    THEN "start step with " \o "init_run=" \o str(__init_run)
    ELSE "default init_run (most recent run)"

finish_msg == "... finished the step"

\* The parameters not written before the entry point is called.
persist_params_skipped(pf, step_dir, params) == pf

\* json.dump(params, open(get_step_dir() + 'params.json', 'w')) (line 232).
persist_params(pf, step_dir, params) ==
    ((step_dir \o "params.json") :> params) @@ pf

\* _run_step(step_name, params, suffix) up to the call of step.run(**params)
\* (lines 217-236).
_run_step(step_name, params, suffix) ==
    LET call == [NoRet EXCEPT !.op = "_run_step", !.step_name = step_name,
                              !.suffix = suffix, !.params = params]
    IN
    /\ pc = "idle"
    /\ calls < MaxCalls
    /\ calls' = calls + 1
    /\ UNCHANGED <<dataset_name, avail_runs, runs_files, figs, html_files,
                   patients_files, patients, log_pipe, __run, __init_run,
                   clock>>
    /\ IF step_positions(step_name) = {}
       THEN \* line 206: [0] of an empty list
            /\ ret' = [call EXCEPT !.exc = "IndexError", !.where = "_init_step"]
            /\ UNCHANGED <<__step, __step_name, __step_dir_suffix, dirs,
                           log_files, log_step, params_files, pc, frame>>
       ELSE LET new_suffix == next_step_dir_suffix(suffix)
                write_dir  == get_write_dir(__run)
                step_dir   == get_step_dir(NoneVal, __run)'
                step_key   == first_step_key(step_name)
                lf1        == init_log_step_files(log_files, step_dir,
                                                  write_dir, "w")
                info       == step_info(step_key, step_name, new_suffix,
                                        step_dir)
            IN
            \* _init_step (lines 204-215)
            /\ __step' = step_key
            /\ __step_name' = step_name
            /\ __step_dir_suffix' = new_suffix
            /\ dirs' = init_step_dirs(dirs, step_dir, write_dir)
            /\ log_step' = step_dir \o "log.txt"
            /\ IF ~HasKey(avail_runs, str(__run))
               THEN \* line 219: avail_runs[str(__run)] of a missing key
                    /\ ret' = [call EXCEPT !.exc = "KeyError",
                                            !.where = "_run_step"]
                    /\ log_files' = lf1
                    /\ UNCHANGED <<params_files, pc, frame>>
               ELSE IF log_pipe = NoneVal
               THEN \* line 224: log_pipe is None
                    /\ ret' = [call EXCEPT !.exc = "AttributeError",
                                            !.where = "_run_step"]
                    /\ log_files' = lf1
                    /\ UNCHANGED <<params_files, pc, frame>>
               ELSE /\ log_files' =
                        emit(emit(emit(lf1, log_pipe, info),
                                  step_dir \o "log.txt",
                                  info \o params_lines(params)),
                             step_dir \o "log.txt", start_msg)
                    /\ params_files' = persist_params(params_files, step_dir,
                                                      params)
                    /\ pc' = "running"
                    /\ frame' = [step_name |-> step_name, params |-> params,
                                 suffix |-> suffix]
                    /\ ret' = [call EXCEPT !.exc = "<running>"]

\* What step.run(**params) may raise: the TypeError of a parameter it does
\* not take, another TypeError, another exception.
unexpected_kw == "run() got an unexpected keyword argument"
EntryErrors ==
    { <<"TypeError", unexpected_kw \o " 'bogus'">>,
      <<"TypeError", "unsupported operand">>,
      <<"ValueError", "bad value">> }

\* The docstring of the step's run(), which lists its parameters.
run_doc == "<step.run.__doc__>"

\* The message of the exception that leaves _run_step (lines 237-241).
raised_msg(err) ==
    IF err[1] = "TypeError" /\ err[2] = unexpected_kw \o " 'bogus'"
    THEN err[2] \o "\n Provide one of the valid parameters\n" \o run_doc
    ELSE err[2]

\* The step's entry point writes a figure into the step's figs/ directory.
step_save_fig ==
    /\ pc = "running"
    /\ get_step_dir(NoneVal, __run) \o "figs/" \notin figs
    /\ figs' = figs \cup {get_step_dir(NoneVal, __run) \o "figs/"}
    /\ UNCHANGED <<dataset_name, avail_runs, runs_files, dirs, params_files,
                   log_files, html_files, patients_files, patients, log_pipe,
                   log_step, __step_name, __step, __step_dir_suffix, __run,
                   __init_run, clock, pc, frame, calls, ret>>

\* A figures directory that exists taken for one that holds figures.
has_figs_dir_only(figs_dir) == figs_dir \in dirs

\* _visualize_step() (lines 249-258, step_name is None): whether the figures
\* directory exists and holds something.
has_figs(figs_dir) == figs_dir \in dirs /\ figs_dir \in figs

\* step.run(**params) raises err: _run_step lets it go (lines 235-241).
step_raise(err) ==
    /\ pc = "running"
    /\ pc' = "idle"
    /\ frame' = NoFrame
    /\ ret' = [NoRet EXCEPT !.op = "_run_step", !.step_name = frame.step_name,
                            !.suffix = frame.suffix, !.params = frame.params,
                            !.exc = err[1], !.where = "step.run",
                            !.value = raised_msg(err)]
    /\ UNCHANGED <<dataset_name, avail_runs, runs_files, dirs, params_files,
                   log_files, figs, html_files, patients_files, patients,
                   log_pipe, log_step, __step_name, __step, __step_dir_suffix,
                   __run, __init_run, clock, calls>>

\* The completion marker written to the step log only.
log_finish_step_only(lf) == emit(lf, log_step, finish_msg)

\* The completion marker of lines 245-247, to the step log and the pipeline log.
log_finish(lf) == emit(emit(lf, log_step, finish_msg), log_pipe, finish_msg)

\* step.run(**params) returns: the rest of _run_step (lines 242-247).
step_return ==
    LET step_dir == get_step_dir(NoneVal, __run)
        figs_dir == step_dir \o "figs/"
        html     == step_dir \o "figs" \o ".html"
        lf1      == IF has_figs(figs_dir)
                    THEN emit(log_files, log_step, "... wrote " \o html)
                    ELSE log_files
    IN
    /\ pc = "running"
    /\ pc' = "idle"
    /\ frame' = NoFrame
    /\ html_files' = IF has_figs(figs_dir) THEN html_files \cup {html}
                     ELSE html_files
    /\ log_files' = log_finish(lf1)
    /\ ret' = [NoRet EXCEPT !.op = "_run_step", !.step_name = frame.step_name,
                            !.suffix = frame.suffix, !.params = frame.params]
    /\ UNCHANGED <<dataset_name, avail_runs, runs_files, dirs, params_files,
                   figs, patients_files, patients, log_pipe, log_step,
                   __step_name, __step, __step_dir_suffix, __run, __init_run,
                   clock, calls>>

\* _visualize_step(step_name) called on its own with a step name (lines
\* 249-258): _init_step(step_name, mode='a'), then the check of figs/.
\* value is what it returns.
_visualize_step(step_name) ==
    LET call == [NoRet EXCEPT !.op = "_visualize_step",
                              !.step_name = step_name]
    IN
    /\ pc = "idle"
    /\ calls < MaxCalls
    /\ calls' = calls + 1
    /\ UNCHANGED <<dataset_name, avail_runs, runs_files, figs, params_files,
                   patients_files, patients, log_pipe, __run, __init_run,
                   clock, pc, frame>>
    /\ IF step_positions(step_name) = {}
       THEN \* line 206: [0] of an empty list
            /\ ret' = [call EXCEPT !.exc = "IndexError", !.where = "_init_step"]
            /\ UNCHANGED <<__step, __step_name, __step_dir_suffix, dirs,
                           log_files, log_step, html_files>>
       ELSE \E step_dir \in {get_step_dir(step_name, __run)} :
            /\ __step' = first_step_key(step_name)
            /\ __step_name' = step_name
            /\ __step_dir_suffix' = next_step_dir_suffix("")
            /\ dirs' = init_step_dirs(dirs, step_dir, get_write_dir(__run))
            /\ log_step' = step_dir \o "log.txt"
            /\ log_files' = init_log_step_files(log_files, step_dir,
                                                get_write_dir(__run), "a")
            /\ \E figs_dir \in {step_dir \o "figs/"} :
                  IF has_figs(figs_dir)'
                  THEN /\ html_files' =
                            html_files \cup {step_dir \o "figs" \o ".html"}
                       /\ ret' = [call EXCEPT !.value = "True"]
                  ELSE /\ html_files' = html_files
                       /\ ret' = [call EXCEPT !.value = "False"]

\* _init_log_pipe() (lines 373-381).
_init_log_pipe ==
    LET filename == get_write_dir(__run) \o "log.txt"
    IN
    /\ pc = "idle"
    /\ calls < MaxCalls
    /\ calls' = calls + 1
    /\ IF get_write_dir(__run) \notin dirs
       THEN \* the file handler cannot create a file in a missing directory
            /\ ret' = [NoRet EXCEPT !.op = "_init_log_pipe",
                                    !.exc = "FileNotFoundError",
                                    !.where = "_init_log_pipe"]
            /\ UNCHANGED <<log_files, log_pipe>>
       ELSE /\ log_files' =
                IF filename \in DOMAIN log_files
                THEN emit(log_files, filename, "\n")
                ELSE open_log(log_files, filename, "a")
            /\ log_pipe' = filename
            /\ ret' = [NoRet EXCEPT !.op = "_init_log_pipe"]
    /\ UNCHANGED <<dataset_name, avail_runs, runs_files, dirs, params_files,
                   figs, html_files, patients_files, patients, log_step,
                   __step_name, __step, __step_dir_suffix, __run, __init_run,
                   clock, pc, frame>>

\* --------------------------------------------------------------- patients
\* The lists of lines 287-292.
fixed_patients ==
    IF dataset_name = "LUNA16"
    THEN <<"164790817284381538042494285101", "756684168227383088294595834066",
           "143410010885830403003179808334", "154703816225841204080664115280",
           "908250781706513856628130123235", "922852847124879997825997808179">>
    ELSE <<"09ee522a3b7dbea48aa6d39afe240129", "cb64ff663195832e0b66a9bb17891954",
           "74b3ef4c2125d636980a19754702dbb9", "4aa3131e76b28e30235664087407edc3",
           "edad5e439ba696b89872f6b9af10cba0", "007c1246c5fe6f200378f6b91323dc2a",
           "e4a87107f94e4a8e32b735d18cef1137", "eb8d5136918d6859ca3cc3abafe369ac",
           "d51dffd06b80ed003aa6095b0639f511", "d81ab3ad896e4198caed105c469a4817">>

\* l[a:b] for 0 <= a, 0 <= b.
slice(l, a, b) == SubSeq(l, a + 1, IF b < Len(l) THEN b ELSE Len(l))

\* __step_dir_suffix as lines 283 and 299 set it.
patients_suffix(args) ==
    IF args.n = 0 /\ args.single = NoneVal /\ args.fromto # << >>
    THEN "_fromto" \o str(args.fromto[1]) \o "-" \o str(args.fromto[2])
    ELSE ""

\* _init_patients(_n_patients, single_patient_id, fromto_patients)
\* (lines 260-302).
_init_patients(args) ==
    LET filename == get_write_dir(__run) \o "patients_raw_data_paths.json"
        all == IF filename \in DOMAIN patients_files
               THEN patients_files[filename] ELSE RawPatients
    IN
    /\ pc = "idle"
    /\ calls < MaxCalls
    /\ calls' = calls + 1
    /\ patients_files' = (filename :> all) @@ patients_files
    /\ dirs' = IF filename \in DOMAIN patients_files THEN dirs
               ELSE ensure_dir(dirs, get_write_dir(__run), {})
    /\ __step_dir_suffix' = patients_suffix(args)
    /\ patients' =
         IF args.n > 0 THEN fixed_patients
         ELSE IF args.single # NoneVal THEN <<args.single>>
         ELSE IF args.fromto # << >>
         THEN slice(all, args.fromto[1], args.fromto[Len(args.fromto)])
         ELSE all
    /\ ret' = [NoRet EXCEPT !.op = "_init_patients"]
    /\ UNCHANGED <<dataset_name, avail_runs, runs_files, params_files,
                   log_files, figs, html_files, log_pipe, log_step,
                   __step_name, __step, __run, __init_run, clock, pc, frame>>

\* n_patients (line 301).
n_patients == Len(patients)

\* ------------------------------------------------------ lineage and loads
\* trial_runs with the lineage start left out: range(__init_run - 1, -1, -1).
trial_runs_skip_start == <<__run>> \o range_down(__init_run - 1, -1)

\* trial_runs that ignores a pinned lineage start: range(__run - 1, -1, -1).
trial_runs_unpinned == <<__run>> \o range_down(__run - 1, -1)

\* trial_runs of line 165.
trial_runs == <<__run>> \o range_down(__init_run, -1)

\* The positions of trial_runs whose step directory holds a record.
load_hits_with_record(step_name) ==
    {i \in 1..Len(trial_runs) :
        /\ get_step_dir(step_name, trial_runs[i]) \in dirs
        /\ \E b \in {"out.json", "params.json"} :
              (get_step_dir(step_name, trial_runs[i]) \o b)
                  \in (DOMAIN json_files \cup DOMAIN params_files)}

\* The positions of trial_runs whose step directory exists.
load_hits(step_name) ==
    {i \in 1..Len(trial_runs) : get_step_dir(step_name, trial_runs[i]) \in dirs}

\* _get_step_dir_for_load(step_name) when it returns (lines 166-169).
_get_step_dir_for_load(step_name) ==
    get_step_dir(step_name,
                 trial_runs[CHOOSE i \in load_hits(step_name) :
                                \A j \in load_hits(step_name) : i <= j])

\* The message of the FileNotFoundError of line 170: step_dir is the
\* directory tried last.
not_found_msg(step_name) ==
    "Did not find " \o get_step_dir(step_name, trial_runs[Len(trial_runs)])
        \o " in runs " \o list_str(trial_runs) \o "."

\* os.path.exists of a record: the records save_json wrote and the
\* params.json files.
json_exists(filename) ==
    filename \in DOMAIN json_files \/ filename \in DOMAIN params_files

\* json.load of a record that exists.
json_read(filename) ==
    IF filename \in DOMAIN json_files THEN json_files[filename]
    ELSE params_files[filename]

\* load_json(basename, step_name) (lines 142-146).
load_json(basename, step_name) ==
    LET call == [NoRet EXCEPT !.op = "load_json", !.basename = basename,
                              !.step_name = step_name,
                              !.trial_runs = trial_runs]
    IN
    /\ ret' =
         IF step_name = NoneVal /\ __step_name = NoneVal
         THEN \* line 125: None + str
              [call EXCEPT !.exc = "TypeError", !.where = "get_step_dir"]
         ELSE IF load_hits(step_name) = {}
         THEN [call EXCEPT !.exc = "FileNotFoundError",
                           !.where = "_get_step_dir_for_load",
                           !.value = not_found_msg(step_name)]
         ELSE IF ~json_exists(_get_step_dir_for_load(step_name) \o basename)
         THEN \* line 144: open() of a missing file
              [call EXCEPT !.exc = "FileNotFoundError", !.where = "load_json",
                   !.step_dir = _get_step_dir_for_load(step_name),
                   !.value = "[Errno 2] No such file or directory: '"
                       \o _get_step_dir_for_load(step_name) \o basename \o "'"]
         ELSE [call EXCEPT !.step_dir = _get_step_dir_for_load(step_name)]
    /\ ret' # ret
    /\ UNCHANGED <<dataset_name, avail_runs, runs_files, dirs, params_files,
                   log_files, figs, html_files, patients_files, patients,
                   log_pipe, log_step, __step_name, __step, __step_dir_suffix,
                   __run, __init_run, clock, pc, frame, calls>>

\* ----------------------------------------------------------------- stores
\* Record names and dicts the callers pass to save_json / load_json: two
\* dicts with disjoint keys and one that shares a key with each.
RecordNames == {"out.json"}
RecordInputs ==
    { << <<"k1", "x">> >>,
      << <<"k2", "x">> >>,
      << <<"k1", "y">>, <<"k2", "y">> >> }
ModeInputs == {"w", "a"}
\* Array names and arrays the callers pass to save_array / load_array.
ArrayNames == {"x.npy", "y"}
ArrayInputs == {"A1"}

\* old_d.update(dictionary) in which a key of old_d keeps its value.
RECURSIVE update_keep_old(_, _)
update_keep_old(old_d, dictionary) ==
    IF Len(dictionary) = 0 THEN old_d
    ELSE update_keep_old(
             IF HasKey(old_d, dictionary[1][1]) THEN old_d
             ELSE Put(old_d, dictionary[1][1], dictionary[1][2]),
             Tail(dictionary))

\* old_d.update(dictionary) (line 131).
RECURSIVE update(_, _)
update(old_d, dictionary) ==
    IF Len(dictionary) = 0 THEN old_d
    ELSE update(Put(old_d, dictionary[1][1], dictionary[1][2]),
                Tail(dictionary))

\* filename of line 128.
save_json_filename(basename, step_name) ==
    get_step_dir(step_name, __run) \o basename

\* The record of the lineage start taken as old_d when it has one.
merge_base_ancestor(basename, step_name) ==
    IF json_exists(get_step_dir(step_name, __init_run) \o basename)
    THEN json_read(get_step_dir(step_name, __init_run) \o basename)
    ELSE json_read(_get_step_dir_for_load(step_name) \o basename)

\* old_d = load_json(basename, step_name) (line 130), when it returns.
merge_base(basename, step_name) ==
    json_read(_get_step_dir_for_load(step_name) \o basename)

\* save_json(basename, dictionary, step_name, mode) (lines 127-134).
save_json(basename, dictionary, step_name, mode) ==
    LET call == [NoRet EXCEPT !.op = "save_json", !.basename = basename,
                              !.dictionary = dictionary,
                              !.step_name = step_name, !.mode = mode]
        filename == save_json_filename(basename, step_name)
    IN
    /\ IF step_name = NoneVal /\ __step_name = NoneVal
       THEN \* line 125: None + str
            /\ ret' = [call EXCEPT !.exc = "TypeError",
                                    !.where = "get_step_dir"]
            /\ UNCHANGED json_files
       ELSE IF mode = "a" /\ json_exists(filename)
       THEN IF load_hits(step_name) = {}
            THEN \* line 170, from load_json
                 /\ ret' = [call EXCEPT !.exc = "FileNotFoundError",
                                         !.where = "_get_step_dir_for_load",
                                         !.value = not_found_msg(step_name)]
                 /\ UNCHANGED json_files
            ELSE IF ~json_exists(_get_step_dir_for_load(step_name) \o basename)
            THEN \* line 144, from load_json
                 /\ ret' = [call EXCEPT !.exc = "FileNotFoundError",
                                         !.where = "load_json"]
                 /\ UNCHANGED json_files
            ELSE /\ json_files' =
                      (filename :> update(merge_base(basename, step_name),
                                          dictionary)) @@ json_files
                 /\ ret' = call
       ELSE IF get_step_dir(step_name, __run) \notin dirs
       THEN \* line 133: open() in a missing directory
            /\ ret' = [call EXCEPT !.exc = "FileNotFoundError",
                                    !.where = "save_json"]
            /\ UNCHANGED json_files
       ELSE /\ json_files' = (filename :> dictionary) @@ json_files
            /\ ret' = call
    /\ <<ret, json_files>>' # <<ret, json_files>>
    /\ UNCHANGED <<dataset_name, avail_runs, runs_files, dirs, params_files,
                   log_files, figs, html_files, patients_files, array_files,
                   patients, log_pipe, log_step, __step_name, __step,
                   __step_dir_suffix, __run, __init_run, clock, pc, frame,
                   calls>>

\* s.endswith(e).
endswith(s, e) ==
    Len(s) >= Len(e) /\ SubSeq(s, Len(s) - Len(e) + 1, Len(s)) = e

\* The file np.save(file, arr) writes: '.npy' is appended to a name that
\* does not end with it.
npy_file(file) == IF endswith(file, ".npy") THEN file ELSE file \o ".npy"

\* The arrays directory of the run the load resolves to.
save_array_dir_resolved(step_name) ==
    IF load_hits(step_name) # {}
    THEN _get_step_dir_for_load(step_name) \o "arrays/"
    ELSE get_step_dir(step_name, __run) \o "arrays/"

\* step_dir of line 149.
save_array_dir(step_name) == get_step_dir(step_name, __run) \o "arrays/"

\* save_array(basename, array, step_name) (lines 148-151).
save_array(basename, array, step_name) ==
    LET call == [NoRet EXCEPT !.op = "save_array", !.basename = basename,
                              !.array = array, !.step_name = step_name]
    IN
    /\ IF step_name = NoneVal /\ __step_name = NoneVal
       THEN \* line 125: None + str
            /\ ret' = [call EXCEPT !.exc = "TypeError",
                                    !.where = "get_step_dir"]
            /\ UNCHANGED array_files
       ELSE IF save_array_dir(step_name) \notin dirs
       THEN \* line 150: np.save opens a file in a missing directory
            /\ ret' = [call EXCEPT !.exc = "FileNotFoundError",
                                    !.where = "save_array"]
            /\ UNCHANGED array_files
       ELSE /\ array_files' =
                 (npy_file(save_array_dir(step_name) \o basename) :> array)
                     @@ array_files
            /\ ret' = [call EXCEPT
                          !.value = save_array_dir(step_name) \o basename]
    /\ <<ret, array_files>>' # <<ret, array_files>>
    /\ UNCHANGED <<dataset_name, avail_runs, runs_files, dirs, params_files,
                   log_files, figs, html_files, patients_files, json_files,
                   patients, log_pipe, log_step, __step_name, __step,
                   __step_dir_suffix, __run, __init_run, clock, pc, frame,
                   calls>>

\* load_array(basename, step_name) (lines 153-155); array is what it returns.
load_array(basename, step_name) ==
    LET call == [NoRet EXCEPT !.op = "load_array", !.basename = basename,
                              !.step_name = step_name,
                              !.trial_runs = trial_runs]
    IN
    /\ ret' =
         IF step_name = NoneVal /\ __step_name = NoneVal
         THEN \* line 125: None + str
              [call EXCEPT !.exc = "TypeError", !.where = "get_step_dir"]
         ELSE IF load_hits(step_name) = {}
         THEN [call EXCEPT !.exc = "FileNotFoundError",
                           !.where = "_get_step_dir_for_load",
                           !.value = not_found_msg(step_name)]
         ELSE IF (_get_step_dir_for_load(step_name) \o "arrays/" \o basename)
                     \notin DOMAIN array_files
         THEN \* line 155: np.load of a missing file
              [call EXCEPT !.exc = "FileNotFoundError", !.where = "load_array",
                   !.step_dir = _get_step_dir_for_load(step_name)]
         ELSE [call EXCEPT
                   !.step_dir = _get_step_dir_for_load(step_name),
                   !.array = array_files[_get_step_dir_for_load(step_name)
                                            \o "arrays/" \o basename]]
    /\ ret' # ret
    /\ UNCHANGED <<dataset_name, avail_runs, runs_files, dirs, params_files,
                   log_files, figs, html_files, patients_files, json_files,
                   array_files, patients, log_pipe, log_step, __step_name,
                   __step, __step_dir_suffix, __run, __init_run, clock, pc,
                   frame, calls>>

Next ==
    /\ UNCHANGED <<probe, json_files, array_files>>
    /\ \/ \E run \in RunInputs, run_descr \in DescrInputs,
             init_run \in InitRunInputs,
             now \in {t \in ClockInputs : t >= clock} :
             _init_run(run, run_descr, init_run, now)
       \/ \E step_name \in StepInputs, params \in ParamInputs,
             suffix \in SuffixInputs :
             _run_step(step_name, params, suffix)
       \/ step_save_fig
       \/ \E err \in EntryErrors : step_raise(err)
       \/ step_return
       \/ _init_log_pipe
       \/ \E step_name \in VisualizeInputs : _visualize_step(step_name)
       \/ \E args \in PatientArgs : _init_patients(args)
       \/ \E basename \in BasenameInputs, step_name \in {"gen_candidates", NoneVal} :
             load_json(basename, step_name)

Spec == Init /\ [][Next]_vars

\* ------------------------------------------------- get_step_dir on its own
\* The runs, step names (the whole catalog) and suffixes get_step_dir is
\* applied to.
ProbeRuns == {0, 1}
ProbeSteps == {avail_steps[i][2] : i \in 1..Len(avail_steps)}
ProbeSuffixes == {"", "_eval", "_fromto0-2"}
ProbeTriples == ProbeRuns \X ProbeSteps \X ProbeSuffixes

InitPath ==
    /\ Globals
    /\ probe \in [a : ProbeTriples, b : ProbeTriples, pa : {""}, pb : {""}]

\* get_step_dir(step, run) with __step_dir_suffix = suffix, for probe.a.
probe_a ==
    /\ probe.pa = ""
    /\ __step_dir_suffix' = probe.a[3]
    /\ UNCHANGED <<dataset_name, __step_name, __run>>
    /\ \E t \in {probe.a} :
          probe' = [probe EXCEPT !.pa = get_step_dir(t[2], t[1])']
    /\ UNCHANGED <<avail_runs, runs_files, dirs, params_files, log_files, figs,
                   html_files, patients_files, patients, log_pipe, log_step,
                   __step, __init_run, clock, pc, frame, calls, ret>>

\* The same for probe.b.
probe_b ==
    /\ probe.pb = ""
    /\ __step_dir_suffix' = probe.b[3]
    /\ UNCHANGED <<dataset_name, __step_name, __run>>
    /\ \E t \in {probe.b} :
          probe' = [probe EXCEPT !.pb = get_step_dir(t[2], t[1])']
    /\ UNCHANGED <<avail_runs, runs_files, dirs, params_files, log_files, figs,
                   html_files, patients_files, patients, log_pipe, log_step,
                   __step, __init_run, clock, pc, frame, calls, ret>>

NextPath == (probe_a \/ probe_b) /\ UNCHANGED <<json_files, array_files>>

SpecPath == InitPath /\ [][NextPath]_vars

\* ------------------------------------------- the stores within the pipeline
\* The calls of the pipeline around the stores: resume and pin with the
\* default lineage start, one step of the catalog without parameters.
StoreRunInputs == {-1, 0}
StoreSteps == {"gen_candidates"}
StoreSaveSteps == {NoneVal}
StoreLoadSteps == {"gen_candidates"}

NextStore ==
    /\ UNCHANGED probe
    /\ \/ /\ \E run \in StoreRunInputs, run_descr \in DescrInputs :
                _init_run(run, run_descr, -1, clock)
          /\ UNCHANGED <<json_files, array_files>>
       \/ /\ \E step_name \in StoreSteps : _run_step(step_name, << >>, "")
          /\ UNCHANGED <<json_files, array_files>>
       \/ /\ step_raise(<<"ValueError", "bad value">>)
          /\ UNCHANGED <<json_files, array_files>>
       \/ /\ step_return
          /\ UNCHANGED <<json_files, array_files>>
       \/ /\ _init_log_pipe
          /\ UNCHANGED <<json_files, array_files>>
       \/ \E basename \in RecordNames, dictionary \in RecordInputs,
             step_name \in StoreSaveSteps, mode \in ModeInputs :
             save_json(basename, dictionary, step_name, mode)
       \/ \E basename \in ArrayNames, array \in ArrayInputs,
             step_name \in StoreSaveSteps :
             save_array(basename, array, step_name)
       \/ /\ \E basename \in RecordNames, step_name \in StoreLoadSteps :
                load_json(basename, step_name)
          /\ UNCHANGED <<json_files, array_files>>
       \/ \E basename \in ArrayNames, step_name \in StoreLoadSteps :
             load_array(basename, step_name)

SpecStore == Init /\ [][NextStore]_vars

\* ================================================================= claims
\* Vocabulary of the claims.
on_disk == IF runs_filename \in DOMAIN runs_files
           THEN runs_files[runs_filename] ELSE << >>
ids(reg) == {int(reg[i][1]) : i \in 1..Len(reg)}
highest(reg) == CHOOSE m \in ids(reg) : \A n \in ids(reg) : n <= m
\* This step is a call of _init_run.
init_run_called == calls' = calls + 1 /\ ret'.op = "_init_run"
\* The lineage chain [r, i, i-1, ..., 0] of active run r and lineage start i.
chain(r, i) == <<r>> \o [k \in 1..(i + 1) |-> i + 1 - k]
\* '<base>/<dataset>_<run>/<stepName><suffix>/'
layout(run, step_name, suffix) ==
    write_basedir \o dataset_name \o "_" \o str(run) \o "/"
        \o step_name \o suffix \o "/"
\* The step a load names, and the positions of the chain that have it.
load_step == IF ret.step_name = NoneVal THEN __step_name ELSE ret.step_name
chain_dir(n) ==
    layout(chain(__run, __init_run)[n], load_step, __step_dir_suffix)
chain_has ==
    {n \in 1..Len(chain(__run, __init_run)) : chain_dir(n) \in dirs}
first_has == CHOOSE n \in chain_has : \A m \in chain_has : n <= m

\* C1: with a registry on disk whose highest identifier is k, resume(d) with
\* d non-empty makes k+1 the active run, adds an entry k+1 carrying d, and
\* leaves every entry recorded before (identifier, timestamp, description) as
\* it was.
C1_resume_allocates_next ==
    [][ ( /\ init_run_called
          /\ ret'.run = -1
          /\ ret'.run_descr # ""
          /\ runs_filename \in DOMAIN runs_files )
        => LET old == runs_files[runs_filename]
               new == runs_files'[runs_filename]
               k   == highest(old)
           IN /\ ret'.exc = ""
              /\ __run' = k + 1
              /\ HasKey(new, str(k + 1))
              /\ Get(new, str(k + 1))[2] = ret'.run_descr
              /\ \A i \in 1..Len(old) :
                    HasKey(new, old[i][1]) /\ Get(new, old[i][1]) = old[i][2]
      ]_vars

\* C2: starting from no registry file, after any resume and pin calls the
\* identifiers in the registry are 0, 1, ..., n in this order; no call removes
\* an identifier, and no resume(d) allocates as a new run an identifier the
\* registry already holds.
C2_ids_dense_and_kept ==
    [][ LET old == on_disk
            new == on_disk'
        IN /\ \A i \in 1..Len(new) : new[i][1] = str(i - 1)
           /\ Keys(old) \subseteq Keys(new)
           /\ ( /\ init_run_called
                /\ ret'.run = -1 /\ ret'.run_descr # "" /\ ret'.exc = ""
                /\ old # << >> )
              => ~HasKey(old, str(__run'))
      ]_vars

\* C3: get_step_dir is injective: two distinct triples (run, step name of the
\* catalog, suffix) give two different paths.
C3_step_dir_injective ==
    (probe.pa # "" /\ probe.pb # "" /\ probe.a # probe.b)
        => probe.pa # probe.pb

\* C4: after step executions only (no _init_patients call), the directory a
\* step execution prepares and writes its parameters into is
\* '<write dir of the active run>/<step><suffix>/' for the step name and the
\* suffix passed to this execution, whatever executions preceded it.
C4_step_dir_from_arguments ==
    ( /\ ret.op = "_run_step"
      /\ ret.where \in {"", "step.run"}
      /\ DOMAIN patients_files = {} )
    => /\ get_step_dir(NoneVal, __run)
            = layout(__run, ret.step_name, ret.suffix)
       /\ layout(__run, ret.step_name, ret.suffix) \in dirs

C6_exhaustion_reported ==
    [][ ( /\ ret'.op = "load_json"
          /\ ret' # ret
          /\ ret'.where # "get_step_dir"
          /\ \A n \in 1..Len(chain(__run, __init_run)) :
                layout(chain(__run, __init_run)[n],
                       IF ret'.step_name = NoneVal THEN __step_name
                       ELSE ret'.step_name,
                       __step_dir_suffix) \notin dirs )
        => /\ ret'.exc = "FileNotFoundError"
           /\ ret'.value =
                "Did not find "
                  \o layout(chain(__run, __init_run)
                                [Len(chain(__run, __init_run))],
                            IF ret'.step_name = NoneVal THEN __step_name
                            ELSE ret'.step_name,
                            __step_dir_suffix)
                  \o " in runs " \o list_str(chain(__run, __init_run)) \o "."
           /\ UNCHANGED <<avail_runs, runs_files, __run, __init_run, dirs,
                          params_files, log_files, figs, html_files,
                          patients_files>>
      ]_vars

\* A load failed on the pinned chain [2, 0] although run 1 holds the step.
C6_witness ==
    /\ ret.op = "load_json"
    /\ ret.where = "_get_step_dir_for_load"
    /\ ret.trial_runs = <<2, 0>>
    /\ layout(1, load_step, __step_dir_suffix) \in dirs

\* C7: while the step's entry point runs, and after it has raised, the step
\* directory holds params.json with the parameters passed to the call.
C7_params_before_entry ==
    /\ pc = "running"
         => /\ (get_step_dir(NoneVal, __run) \o "params.json")
                    \in DOMAIN params_files
            /\ params_files[get_step_dir(NoneVal, __run) \o "params.json"]
                    = frame.params
    /\ (ret.op = "_run_step" /\ ret.where = "step.run")
         => /\ (get_step_dir(NoneVal, __run) \o "params.json")
                    \in DOMAIN params_files
            /\ params_files[get_step_dir(NoneVal, __run) \o "params.json"]
                    = ret.params

\* The entry point of a step called with a non-empty parameter set raised.
C7_witness ==
    /\ ret.op = "_run_step"
    /\ ret.where = "step.run"
    /\ ret.exc = "ValueError"
    /\ ret.params # << >>
    /\ params_files[get_step_dir(NoneVal, __run) \o "params.json"] = ret.params

\* C8: when the entry point of a step raised, the exception was written to
\* the pipeline-wide log before _run_step let it go (so the log's last
\* message is no longer the line _run_step wrote when the step started), and
\* the step is not running again.
C8_exception_logged ==
    (ret.op = "_run_step" /\ ret.where = "step.run")
    => /\ pc = "idle"
       /\ log_files[log_pipe] # << >>
       /\ log_files[log_pipe][Len(log_files[log_pipe])]
            # step_info(__step, __step_name, __step_dir_suffix,
                        get_step_dir(NoneVal, __run))

\* C9: with a registry on disk, pin(runId, d) makes runId the active run;
\* if the registry has an entry for runId and d is empty the entry's
\* description is kept, and in every other case d is recorded as the
\* description of runId.
C9_pin_records ==
    [][ ( /\ init_run_called
          /\ ret'.run # -1
          /\ runs_filename \in DOMAIN runs_files )
        => LET old == runs_files[runs_filename]
               new == runs_files'[runs_filename]
               key == str(ret'.run)
           IN /\ ret'.exc = ""
              /\ __run' = ret'.run
              /\ HasKey(new, key)
              /\ Get(new, key)[2] =
                    IF HasKey(old, key) /\ ret'.run_descr = ""
                    THEN Get(old, key)[2] ELSE ret'.run_descr
      ]_vars

\* C10: with a registry on disk whose highest identifier is `last`,
\* resume("") makes `last` the active run and leaves the set of identifiers
\* of the registry as it was.
C10_resume_reuses_highest ==
    [][ ( /\ init_run_called
          /\ ret'.run = -1
          /\ ret'.run_descr = ""
          /\ runs_filename \in DOMAIN runs_files )
        => /\ ret'.exc = ""
           /\ __run' = highest(runs_files[runs_filename])
           /\ Keys(runs_files'[runs_filename])
                = Keys(runs_files[runs_filename])
      ]_vars

\* C11: with no registry file, resume("") returns with 0 as the active run,
\* and the registry file then holds exactly one entry, keyed "0", made of the
\* timestamp read and the default description ('run zero').
C11_fresh_resume ==
    [][ ( /\ init_run_called
          /\ ret'.run = -1
          /\ ret'.run_descr = ""
          /\ runs_filename \notin DOMAIN runs_files )
        => /\ ret'.exc = ""
           /\ __run' = 0
           /\ runs_filename \in DOMAIN runs_files'
           /\ runs_files'[runs_filename] = << <<"0", <<clock', "run zero">> >> >>
      ]_vars

\* The first call of a behaviour was resume("") at clock reading 1.
C11_witness ==
    /\ calls = 1
    /\ ret.op = "_init_run" /\ ret.run = -1 /\ ret.run_descr = ""
    /\ ret.exc = ""
    /\ __run = 0
    /\ on_disk = << <<"0", <<1, "run zero">> >> >>

\* C12: no call removes a registry entry; a resume or pin call with an empty
\* description leaves the description of every recorded run as it was; and
\* the description of a recorded run r changes only in a call that was given
\* a non-empty description and settles on r.
C12_descr_kept ==
    [][ LET old == on_disk
            new == on_disk'
        IN \A i \in 1..Len(old) :
              /\ \E j \in 1..Len(new) : new[j][1] = old[i][1]
              /\ \A j \in 1..Len(new) :
                    new[j][1] = old[i][1] =>
                       /\ (init_run_called /\ ret'.run_descr = "")
                             => new[j][2][2] = old[i][2][2]
                       /\ new[j][2][2] # old[i][2][2]
                             => /\ init_run_called
                                /\ ret'.run_descr # ""
                                /\ ret'.exc = ""
                                /\ str(__run') = old[i][1]
      ]_vars

\* pin(0, "") at clock reading 1 on the registry 0: 'run zero', 1: 'a',
\* both recorded at clock reading 0: the entry of run 0 has the new timestamp
\* and its description.
C12_witness ==
    /\ ret.op = "_init_run" /\ ret.run = 0 /\ ret.run_descr = ""
    /\ ret.exc = ""
    /\ on_disk = << <<"0", <<1, "run zero">> >>, <<"1", <<0, "a">> >> >>

\* C15: _run_step of a name that is not in avail_steps raises at once (the
\* IndexError of line 206, from _init_step): it makes no directory, writes
\* no parameter file and no log, does not call an entry point, and leaves
\* __step_name, __step and __step_dir_suffix as they were.
C15_unknown_step ==
    [][ ( /\ calls' = calls + 1
          /\ ret'.op = "_run_step"
          /\ \A j \in 1..Len(avail_steps) : avail_steps[j][2] # ret'.step_name )
        => /\ ret'.exc = "IndexError"
           /\ ret'.where = "_init_step"
           /\ pc' = "idle"
           /\ UNCHANGED <<dirs, params_files, log_files, log_step,
                          __step_name, __step, __step_dir_suffix>>
      ]_vars

\* An unknown step was asked for after a step with a suffix had been prepared.
C15_witness ==
    /\ ret.op = "_run_step"
    /\ ret.step_name = "no_such_step"
    /\ ret.exc = "IndexError"
    /\ __step_name = "gen_candidates"
    /\ __step = "3"
    /\ __step_dir_suffix = "_eval"
    /\ \A d \in dirs : d # get_write_dir(__run) \o "no_such_step/"
                       /\ d # get_write_dir(__run) \o "no_such_step_eval/"

\* C16: when a resume or pin call returns, the registry file holds the
\* registry in memory (same entries in the same order) and that registry has
\* an entry for the active run.
C16_registry_persisted ==
    [][ (init_run_called /\ ret'.exc = "")
        => /\ runs_filename \in DOMAIN runs_files'
           /\ runs_files'[runs_filename] = avail_runs'
           /\ \E i \in 1..Len(runs_files'[runs_filename]) :
                 runs_files'[runs_filename][i][1] = str(__run')
      ]_vars

\* A call returned with three runs recorded out of numeric order.
C16_witness ==
    /\ ret.op = "_init_run" /\ ret.exc = ""
    /\ Len(avail_runs) = 3
    /\ avail_runs[2][1] = "2" /\ avail_runs[3][1] = "1"
    /\ on_disk = avail_runs
    /\ __run = 1

\* The figures directory and the overview document of the current step.
cur_figs_dir == get_step_dir(NoneVal, __run) \o "figs/"
cur_html == get_step_dir(NoneVal, __run) \o "figs" \o ".html"
\* This step is the entry point of the running step returning.
entry_returns == pc = "running" /\ pc' = "idle" /\ ret'.exc = ""
\* The last message of a log file ("" for an empty one).
last_msg(lf, f) == IF Len(lf[f]) = 0 THEN "" ELSE lf[f][Len(lf[f])]

marks(lf, f) ==
    IF f \in DOMAIN lf
    THEN Cardinality({i \in 1..Len(lf[f]) : lf[f][i] = "... finished the step"})
    ELSE 0

store_step == IF ret.step_name = NoneVal THEN __step_name ELSE ret.step_name
store_dir == layout(__run, store_step, __step_dir_suffix)
store_file == store_dir \o ret.basename
\* The value of key k in the dict d.
val(d, k) == d[CHOOSE i \in 1..Len(d) : d[i][1] = k][2]
\* new is old merged with d: the keys of both, each once; a key of d has the
\* value of d, every other key the value of old.
merged(new, old, d) ==
    /\ Keys(new) = Keys(old) \cup Keys(d)
    /\ Len(new) = Cardinality(Keys(new))
    /\ \A k \in Keys(d) : val(new, k) = val(d, k)
    /\ \A k \in Keys(old) \ Keys(d) : val(new, k) = val(old, k)
\* This step is a call of save_json in merge mode that gets past get_step_dir.
merge_called ==
    /\ ret'.op = "save_json"
    /\ ret'.mode = "a"
    /\ ret'.where # "get_step_dir"
    /\ <<ret, json_files>>' # <<ret, json_files>>

\* C13: when save_json in merge mode has stored its dict as the record (the
\* first call) and is called again in merge mode for the same record of the
\* same step directory (the second call), the keys of the stored record are
\* the keys of both calls; a key of the second call has the second call's
\* value, a key of the first call only keeps its value.
C13_merge_twice ==
    [][ ( /\ merge_called
          /\ ret.op = "save_json" /\ ret.mode = "a" /\ ret.exc = ""
          /\ ret.basename = ret'.basename
          /\ ret.step_name = ret'.step_name
          /\ json_files[store_file] = ret.dictionary )
        => /\ ret'.exc = ""
           /\ Keys(json_files'[store_file])
                 = Keys(ret.dictionary) \cup Keys(ret'.dictionary)
           /\ Len(json_files'[store_file])
                 = Cardinality(Keys(json_files'[store_file]))
           /\ \A k \in Keys(ret'.dictionary) :
                 val(json_files'[store_file], k) = val(ret'.dictionary, k)
           /\ \A k \in Keys(ret.dictionary) \ Keys(ret'.dictionary) :
                 val(json_files'[store_file], k) = val(ret.dictionary, k)
      ]_vars

\* {'k2': 'x'} merged with {'k1': 'y', 'k2': 'y'}: k2 keeps its place and
\* has the later value, k1 is added.
C13_witness ==
    /\ ret.op = "save_json" /\ ret.mode = "a" /\ ret.exc = ""
    /\ ret.dictionary = << <<"k1", "y">>, <<"k2", "y">> >>
    /\ store_file \in DOMAIN json_files
    /\ json_files[store_file] = << <<"k2", "y">>, <<"k1", "y">> >>

\* C14: a save_json in merge mode stores the merge of its dict with the record
\* in the step directory of the active run when there is one; when there is
\* none it stores exactly its dict, or fails when the directory is missing;
\* whatever the runs of the lineage hold. No other record changes.
C14_merge_current_only ==
    [][ merge_called
        => LET f   == layout(__run,
                             IF ret'.step_name = NoneVal THEN __step_name
                             ELSE ret'.step_name,
                             __step_dir_suffix) \o ret'.basename
               dir == layout(__run,
                             IF ret'.step_name = NoneVal THEN __step_name
                             ELSE ret'.step_name,
                             __step_dir_suffix)
           IN /\ \A g \in DOMAIN json_files :
                    g # f => /\ g \in DOMAIN json_files'
                             /\ json_files'[g] = json_files[g]
              /\ DOMAIN json_files' \subseteq DOMAIN json_files \cup {f}
              /\ IF f \in DOMAIN json_files
                 THEN /\ ret'.exc = ""
                      /\ merged(json_files'[f], json_files[f], ret'.dictionary)
                 ELSE IF dir \in dirs
                 THEN /\ ret'.exc = ""
                      /\ json_files'[f] = ret'.dictionary
                 ELSE /\ ret'.exc = "FileNotFoundError"
                      /\ json_files' = json_files
      ]_vars

\* A merge in run 1 stored exactly its dict although run 0, the lineage
\* start, holds a record of the same name with another key.
C14_witness ==
    /\ ret.op = "save_json" /\ ret.mode = "a" /\ ret.exc = ""
    /\ __run = 1 /\ __init_run = 0
    /\ ret.dictionary = << <<"k2", "x">> >>
    /\ json_files[store_file] = << <<"k2", "x">> >>
    /\ (layout(0, store_step, __step_dir_suffix) \o ret.basename)
           \in DOMAIN json_files
    /\ json_files[layout(0, store_step, __step_dir_suffix) \o ret.basename]
           = << <<"k1", "x">> >>

startswith(s, p) == Len(s) >= Len(p) /\ SubSeq(s, 1, Len(p)) = p
\* The paths a step creates or rewrites in a file variable (path -> content).
touched(old, new) ==
    {f \in DOMAIN new : f \notin DOMAIN old \/ new[f] # old[f]}

====
